---- MODULE Spec2Model ----
(***************************************************************************)
(* TTRPG GM Tools MCP server (cloudflare-mcp-server/src/index.js).         *)
(*                                                                         *)
(* One tools/call request is followed from the dispatcher                  *)
(* (handleMCPRequest) through the generator it selects, the single table   *)
(* fetch the generator performs, the random draws, and the envelope the    *)
(* dispatcher builds.  Tables are external documents: a document has the   *)
(* shape the generator navigates, any keyed entry of a mapping may be      *)
(* absent and any sequence may be empty.  Arguments conform to the         *)
(* inputSchema the server declares in tools/list.                          *)
(*                                                                         *)
(* JavaScript values: `undefined` is the string Undefined (what a template *)
(* literal prints for it); an object is a function from its own keys;      *)
(* an array is a sequence (index k of the code is k+1 here); a message     *)
(* built by a template literal is the tuple of its pieces.                 *)
(***************************************************************************)
EXTENDS Integers, Sequences, FiniteSets, TLC

\* ------------------------------------------------------------------------
\* Bounds of the model
\* ------------------------------------------------------------------------
MaxLevel == 2
MaxCount == 4
MaxCR == 18

\* ------------------------------------------------------------------------
\* JavaScript helpers
\* ------------------------------------------------------------------------
Undefined == "undefined"

Min(a, b) == IF a < b THEN a ELSE b

\* Math.floor(Math.random() * n): Math.random() is in [0,1), so the product
\* is in [0,n) and its floor in 0..n-1; for n = 0 the product is 0.
RandomIndex(n) == IF n <= 0 THEN {0} ELSE 0 .. (n - 1)

\* arr[idx] on an array: undefined when idx is not an index of arr.
ArrayAt(arr, idx) == IF (idx + 1) \in DOMAIN arr THEN arr[idx + 1] ELSE Undefined

\* { ...base, ...rec }: later properties overwrite earlier ones.
Spread(base, rec) ==
  [k \in (DOMAIN base) \cup (DOMAIN rec) |-> IF k \in DOMAIN rec THEN rec[k] ELSE base[k]]

\* All objects with keys among `keys` and values in `vals`.
PartialMaps(keys, vals) == UNION {[ks -> vals] : ks \in SUBSET keys}

\* ------------------------------------------------------------------------
\* fetchData
\* ------------------------------------------------------------------------
\* What the fetch of a table can do: succeed with a parsed document, answer
\* with a non-success status, or deliver a body response.json() rejects.
FetchStatuses == {"ok", "bad_status", "bad_body"}

fetchError(filename, status) ==
  IF status = "bad_status"
    THEN [message |-> <<"Failed to fetch ", filename, ": ", "statusText">>]
    ELSE [message |-> <<"Unexpected token in JSON">>]

\* The settlement of a generator whose fetch did not succeed: the rejection
\* of `await fetchData(...)` leaves the generator as a throw.
fetchData(filename, status) ==
  [outcome |-> "threw", result |-> fetchError(filename, status)]

Returned(value) == [outcome |-> "returned", result |-> value]
Threw(msg) == [outcome |-> "threw", result |-> [message |-> msg]]

\* ------------------------------------------------------------------------
\* generate_encounter
\* ------------------------------------------------------------------------
Environments == {"forest", "dungeon"}
Difficulties == {"easy", "medium"}
Levels == 1 .. MaxLevel

\* Lists of encounter records of the table; a record may carry any fields.
EncounterLists ==
  { <<>>,
    <<[name |-> "goblins"]>>,
    <<[name |-> "goblins"], [name |-> "wolves", partyLevel |-> 9]>>,
    <<[name |-> "bandits", difficulty |-> "deadly", environment |-> "city"]>> }

EncounterDocs ==
  { [encounters |-> t] :
      t \in PartialMaps({"forest"}, PartialMaps(Difficulties, EncounterLists)) }

EncounterArgs ==
  { [level |-> l, environment |-> e] : l \in Levels, e \in Environments }
  \cup { [level |-> l, environment |-> e, difficulty |-> d] :
           l \in Levels, e \in Environments, d \in Difficulties }

\* Destructuring default: difficulty = 'medium'.
EncounterDifficulty(a) == IF "difficulty" \in DOMAIN a THEN a.difficulty ELSE "medium"

\* data.encounters[environment]?.[difficulty] || []
EncounterList(doc, environment, difficulty) ==
  IF environment \in DOMAIN doc.encounters
     /\ difficulty \in DOMAIN doc.encounters[environment]
    THEN doc.encounters[environment][difficulty]
    ELSE <<>>

generate_encounter(a, doc) ==
  LET environment == a.environment
      difficulty == EncounterDifficulty(a)
      encounters == EncounterList(doc, environment, difficulty)
  IN IF Len(encounters) = 0
       THEN { Returned([error |-> <<"No encounters found for ", environment, " / ", difficulty>>]) }
       ELSE { Returned(Spread([environment |-> environment,
                               difficulty |-> difficulty,
                               partyLevel |-> a.level],
                              ArrayAt(encounters, r)))
              : r \in RandomIndex(Len(encounters)) }

\* ------------------------------------------------------------------------
\* generate_npc_name
\* ------------------------------------------------------------------------
Races == {"elf", "orc"}
Genders == {"male", "female"}
NameLists == { <<>>, <<"Aelar">>, <<"Aelar", "Borin">> }

NameDocs ==
  { [names |-> t] : t \in PartialMaps({"elf"}, PartialMaps(Genders, NameLists)) }

NameArgs == { [race |-> r, gender |-> g] : r \in Races, g \in Genders }

\* data.names[race]?.[gender] || []
NameList(doc, race, gender) ==
  IF race \in DOMAIN doc.names /\ gender \in DOMAIN doc.names[race]
    THEN doc.names[race][gender]
    ELSE <<>>

generate_npc_name(a, doc) ==
  LET names == NameList(doc, a.race, a.gender)
  IN IF Len(names) = 0
       THEN { Returned([error |-> <<"No names found for ", a.race, " / ", a.gender>>]) }
       ELSE { Returned([name |-> ArrayAt(names, r), race |-> a.race, gender |-> a.gender])
              : r \in RandomIndex(Len(names)) }

\* ------------------------------------------------------------------------
\* generate_location_name
\* ------------------------------------------------------------------------
LocationTypes == {"tavern", "castle"}
PrefixLists == { <<>>, <<"Golden">>, <<"Golden", "Rusty">> }
SuffixLists == { <<>>, <<"Dragon">>, <<"Dragon", "Anchor">> }

LocationDocs ==
  { [locations |-> t] :
      t \in PartialMaps({"tavern"},
                        { [prefixes |-> p, suffixes |-> x] :
                            p \in PrefixLists, x \in SuffixLists }) }

LocationArgs == { [type |-> t] : t \in LocationTypes }

generate_location_name(a, doc) ==
  IF a.type \notin DOMAIN doc.locations
    THEN { Returned([error |-> <<"No location type found: ", a.type>>]) }
    ELSE LET location == doc.locations[a.type]
         IN { Returned([name |-> << ArrayAt(location.prefixes, p), " ",
                                    ArrayAt(location.suffixes, x) >>,
                        type |-> a.type])
              : p \in RandomIndex(Len(location.prefixes)),
                x \in RandomIndex(Len(location.suffixes)) }

\* ------------------------------------------------------------------------
\* generate_weather
\* ------------------------------------------------------------------------
Climates == {"desert", "arctic"}
Seasons == {"winter", "summer"}
SeasonLists == { <<>>, <<"snow">>, <<"snow", "hail">> }
AnyLists == { <<>>, <<"clear">>, <<"clear", "windy">> }

ClimateTables ==
  { f \in PartialMaps({"winter", "any"}, SeasonLists \cup AnyLists) :
      /\ "winter" \in DOMAIN f => f["winter"] \in SeasonLists
      /\ "any" \in DOMAIN f => f["any"] \in AnyLists }

WeatherDocs == { [weather |-> t] : t \in PartialMaps({"desert"}, ClimateTables) }

WeatherArgs ==
  { [climate |-> c] : c \in Climates }
  \cup { [climate |-> c, season |-> s] : c \in Climates, s \in Seasons }

\* A parameter the caller left out is undefined.
WeatherSeason(a) == IF "season" \in DOMAIN a THEN a.season ELSE Undefined

\* season && data.weather[climate]?.[season]: a string is truthy unless it
\* is empty, undefined is falsy, and an array is truthy even when empty.
SeasonTruthy(doc, climate, season) ==
  /\ season # Undefined
  /\ season # ""
  /\ climate \in DOMAIN doc.weather
  /\ season \in DOMAIN doc.weather[climate]

\* data.weather[climate]?.any || []
AnyList(doc, climate) ==
  IF climate \in DOMAIN doc.weather /\ "any" \in DOMAIN doc.weather[climate]
    THEN doc.weather[climate]["any"]
    ELSE <<>>

WeatherOptions(doc, climate, season) ==
  IF SeasonTruthy(doc, climate, season)
    THEN doc.weather[climate][season]
    ELSE AnyList(doc, climate)

generate_weather(a, doc) ==
  LET season == WeatherSeason(a)
      weatherOptions == WeatherOptions(doc, a.climate, season)
  IN IF Len(weatherOptions) = 0
       THEN { Returned([error |-> <<"No weather found for ", a.climate, " / ", season>>]) }
       ELSE { Returned([climate |-> a.climate, season |-> season,
                        description |-> ArrayAt(weatherOptions, r)])
              : r \in RandomIndex(Len(weatherOptions)) }

\* ------------------------------------------------------------------------
\* generate_plot_hook
\* ------------------------------------------------------------------------
Themes == {"mystery", "horror"}
HookLists == { <<>>, <<"A missing heir">>, <<"A missing heir", "A cursed bell">> }

PlotHookDocs == { [plot_hooks |-> t] : t \in PartialMaps({"mystery"}, HookLists) }

PlotHookArgs ==
  { [theme |-> t] : t \in Themes }
  \cup { [theme |-> t, level |-> l] : t \in Themes, l \in Levels }

\* data.plot_hooks[theme] || []
HookList(doc, theme) ==
  IF theme \in DOMAIN doc.plot_hooks THEN doc.plot_hooks[theme] ELSE <<>>

generate_plot_hook(a, doc) ==
  LET hooks == HookList(doc, a.theme)
  IN IF Len(hooks) = 0
       THEN { Returned([error |-> <<"No plot hooks found for theme: ", a.theme>>]) }
       ELSE { Returned(IF "level" \in DOMAIN a
                         THEN [theme |-> a.theme, suggestedLevel |-> a.level,
                               hook |-> ArrayAt(hooks, r)]
                         ELSE [theme |-> a.theme, suggestedLevel |-> Undefined,
                               hook |-> ArrayAt(hooks, r)])
              : r \in RandomIndex(Len(hooks)) }

\* ------------------------------------------------------------------------
\* generate_personality
\* ------------------------------------------------------------------------
DefaultCount == 4

TraitDocs ==
  { [traits |-> t, ideals |-> d, bonds |-> <<>>, flaws |-> f, quirks |-> q] :
      t \in { <<>>, <<"brave">>, <<"brave", "kind">> },
      d \in { <<>>, <<"honor">> },
      f \in { <<>>, <<"greedy">> },
      q \in { <<>>, <<"brave">> } }

\* count is declared { type: 'integer', minimum: 1, maximum: 10, default: 4 }.
PersonalityArgs == { <<>> } \cup { [count |-> c] : c \in 1 .. MaxCount }

\* Destructuring default: count = 4.
PersonalityCount(a) == IF "count" \in DOMAIN a THEN a.count ELSE DefaultCount

\* [...data.traits, ...data.ideals, ...data.bonds, ...data.flaws, ...data.quirks]
AllTraits(doc) == doc.traits \o doc.ideals \o doc.bonds \o doc.flaws \o doc.quirks

\* selected.includes(trait)
Includes(seq, x) == \E k \in DOMAIN seq : seq[k] = x

PushIfAbsent_always(sel, trait) == Append(sel, trait)

\* if (!selected.includes(trait)) selected.push(trait)
PushIfAbsent(sel, trait) == IF Includes(sel, trait) THEN sel ELSE Append(sel, trait)

LoopBound_count(count, poolSize) == count

\* The bound of the for loop: Math.min(count, allTraits.length).
LoopBound(count, poolSize) == Min(count, poolSize)

\* ------------------------------------------------------------------------
\* generate_treasure
\* ------------------------------------------------------------------------
MaxDie == 12

DigitChars == <<"0", "1", "2", "3", "4", "5", "6", "7", "8", "9">>

RECURSIVE Digits(_)
\* The decimal digits of a natural number, as the table's author writes it.
Digits(n) ==
  IF n < 10 THEN <<DigitChars[n + 1]>>
            ELSE Digits(n \div 10) \o <<DigitChars[(n % 10) + 1]>>

\* A dice spec "<N>d<M>" as a string of characters.
FormatDice(n, m) == Digits(n) \o <<"d">> \o Digits(m)

RECURSIVE Split(_, _)
\* s.split(sep) for a one-character separator.
Split(s, sep) ==
  IF \A k \in DOMAIN s : s[k] # sep
    THEN <<s>>
    ELSE LET k == CHOOSE j \in DOMAIN s : s[j] = sep /\ \A h \in 1 .. (j - 1) : s[h] # sep
         IN <<SubSeq(s, 1, k - 1)>> \o Split(SubSeq(s, k + 1, Len(s)), sep)

IsDigit(c) == \E d \in 0 .. 9 : DigitChars[d + 1] = c
DigitValue(c) == CHOOSE d \in 0 .. 9 : DigitChars[d + 1] = c

RECURSIVE ParseIntAcc(_, _)
ParseIntAcc(s, acc) ==
  IF s = <<>> \/ ~IsDigit(Head(s))
    THEN acc
    ELSE ParseIntAcc(Tail(s), acc * 10 + DigitValue(Head(s)))

\* parseInt(s) for a string that begins with a decimal digit: the value of
\* its leading run of digits (the dice specs of the table are "<N>d<M>").
ParseInt(s) == ParseIntAcc(s, 0)

DieFaces_zeroBased(diceSize) == RandomIndex(diceSize)

\* Math.floor(Math.random() * diceSize) + 1
DieFaces(diceSize) == { r + 1 : r \in RandomIndex(diceSize) }

RECURSIVE RollTotals(_, _)
\* The values `total` can have after numDice iterations of
\* total += Math.floor(Math.random() * diceSize) + 1, starting from 0.
RollTotals(numDice, diceSize) ==
  IF numDice <= 0
    THEN {0}
    ELSE { t + r : t \in RollTotals(numDice - 1, diceSize), r \in DieFaces(diceSize) }

\* The values coins[coinType] can get from one entry of the bucket.
CoinValues(diceData) ==
  LET rolls == Split(diceData.dice, "d")
      numDice == ParseInt(rolls[1])
      diceSize == ParseInt(rolls[2])
  IN { total * diceData.multiplier : total \in RollTotals(numDice, diceSize) }

\* The coins objects the loop over Object.entries(treasureData) can build.
CoinsOf(treasureData) ==
  LET kinds == { c \in DOMAIN treasureData : c # "items" }
      all == UNION { CoinValues(treasureData[c]) : c \in kinds }
  IN { f \in [kinds -> all] : \A c \in kinds : f[c] \in CoinValues(treasureData[c]) }

CRRange_strict(cr) ==
  IF cr > 17 THEN "cr17+"
  ELSE IF cr > 11 THEN "cr11-16"
  ELSE IF cr > 5 THEN "cr5-10"
  ELSE "cr0-4"

\* let crRange = 'cr0-4'; if (cr >= 17) ... else if (cr >= 11) ... else if (cr >= 5) ...
CRRange(cr) ==
  IF cr >= 17 THEN "cr17+"
  ELSE IF cr >= 11 THEN "cr11-16"
  ELSE IF cr >= 5 THEN "cr5-10"
  ELSE "cr0-4"

Entry(n, m, k) == [dice |-> FormatDice(n, m), multiplier |-> k]

FullBuckets ==
  ("cr0-4" :> [cp |-> Entry(1, 2, 1)])
  @@ ("cr5-10" :> [sp |-> Entry(2, 6, 10), items |-> "magic_medium"])
  @@ ("cr11-16" :> [gp |-> Entry(10, 2, 1), ep |-> Entry(1, 1, 0)])
  @@ ("cr17+" :> [pp |-> Entry(1, 12, 2)])

SparseBuckets ==
  ("cr0-4" :> [cp |-> Entry(2, 2, 5)])
  @@ ("cr11-16" :> [gp |-> Entry(2, 6, 10), items |-> "magic_major"])

TreasureTypes == {"individual", "hoard"}
MediumPools == { <<>>, <<"Wand", "Cloak">> }
MajorPools == { <<>>, <<"Vorpal Sword">> }

\* { <type>: { <bucket>: { <coin kind>: {dice, multiplier} } }, items: {...} }
TreasureDocs ==
  { [treasure |->
       [k \in (DOMAIN t) \cup {"items"} |->
          IF k = "items" THEN [magic_medium |-> md, magic_major |-> mj] ELSE t[k]]] :
      t \in PartialMaps(TreasureTypes, {FullBuckets, SparseBuckets}),
      md \in MediumPools, mj \in MajorPools }

\* cr is declared { type: 'integer', minimum: 0, maximum: 30 }.
TreasureArgs ==
  { [cr |-> c] : c \in 0 .. MaxCR }
  \cup { [cr |-> c, type |-> t] : c \in 0 .. MaxCR, t \in TreasureTypes }

\* Destructuring default: type = 'individual'.
TreasureType(a) == IF "type" \in DOMAIN a THEN a.type ELSE "individual"

\* The treasureItems arrays the hoard loop can build.
TreasureItems(doc, cr, type) ==
  IF type = "hoard" /\ cr >= 5
    THEN LET items == doc.treasure["items"]
             itemPool == IF cr >= 11 THEN items.magic_major ELSE items.magic_medium
         IN UNION { { [k \in 1 .. numItems |-> ArrayAt(itemPool, picks[k])] :
                        picks \in [1 .. numItems -> RandomIndex(Len(itemPool))] } :
                    numItems \in { r + 1 : r \in RandomIndex(3) } }
    ELSE { <<>> }

generate_treasure(a, doc) ==
  LET cr == a.cr
      type == TreasureType(a)
      range == CRRange(cr)
  IN IF type \notin DOMAIN doc.treasure
       THEN \* data.treasure[type] is undefined and [crRange] reads a property of it
            { Threw(<<"Cannot read properties of undefined (reading '", range, "')">>) }
       ELSE LET coinSets == IF range \in DOMAIN doc.treasure[type]
                              THEN CoinsOf(doc.treasure[type][range])
                              ELSE { <<>> }
            IN { Returned([challengeRating |-> cr, type |-> type,
                           coins |-> coins, items |-> treasureItems]) :
                   coins \in coinSets, treasureItems \in TreasureItems(doc, cr, type) }

\* ------------------------------------------------------------------------
\* The tools object and the dispatcher
\* ------------------------------------------------------------------------
GeneratorNames ==
  { "generate_encounter", "generate_npc_name", "generate_location_name",
    "generate_personality", "generate_treasure", "generate_weather",
    "generate_plot_hook" }

\* `tools` is an object literal, so tools[name] also finds what the object
\* inherits from Object.prototype.
InheritedFunctions == {"toString", "constructor"}
InheritedObjects == {"__proto__"}

RequestNames ==
  GeneratorNames \cup InheritedFunctions \cup InheritedObjects
  \cup {"generate_dungeon", Undefined}

\* tools[name]: what the property lookup yields.
ToolsLookup(n) ==
  IF n \in GeneratorNames THEN "generator"
  ELSE IF n \in InheritedFunctions THEN "inherited function"
  ELSE IF n \in InheritedObjects THEN "inherited object"
  ELSE Undefined

ArgsFor(n) ==
  CASE n = "generate_encounter" -> EncounterArgs
    [] n = "generate_npc_name" -> NameArgs
    [] n = "generate_location_name" -> LocationArgs
    [] n = "generate_personality" -> PersonalityArgs
    [] n = "generate_treasure" -> TreasureArgs
    [] n = "generate_weather" -> WeatherArgs
    [] n = "generate_plot_hook" -> PlotHookArgs
    [] OTHER -> { <<>>, [type |-> "tavern"] }

\* JSON.stringify(value, null, 2): the text that serialises `value`.
JSONStringify(value) == [json |-> value]

UnknownToolResponse(n) ==
  [content |-> <<[type |-> "text",
                  text |-> JSONStringify([error |-> <<"Unknown tool: ", n>>])]>>,
   isError |-> TRUE]

VARIABLES pc, name, args, fetchStatus, data, invoked, outcome, result, response,
          crRange, i, selected, drawn

vars == <<pc, name, args, fetchStatus, data, invoked, outcome, result, response,
          crRange, i, selected, drawn>>

Init ==
  /\ pc = "idle"
  /\ name = Undefined
  /\ args = <<>>
  /\ fetchStatus = "none"
  /\ data = <<>>
  /\ invoked = "none"
  /\ outcome = "pending"
  /\ result = <<>>
  /\ response = <<>>
  /\ crRange = Undefined
  /\ i = 0
  /\ selected = <<>>
  /\ drawn = <<>>

\* case 'tools/call': const { name, arguments: args } = params
ToolsCall ==
  /\ pc = "idle"
  /\ \E n \in RequestNames : \E a \in ArgsFor(n) :
       /\ name' = n
       /\ args' = a
  /\ pc' = "called"
  /\ UNCHANGED <<fetchStatus, data, invoked, outcome, result, response,
                 crRange, i, selected, drawn>>

\* tools[name](args) for the generators that run without a loop of their own.
Generate(tool, a, doc) ==
  CASE tool = "generate_encounter" -> generate_encounter(a, doc)
    [] tool = "generate_npc_name" -> generate_npc_name(a, doc)
    [] tool = "generate_location_name" -> generate_location_name(a, doc)
    [] tool = "generate_weather" -> generate_weather(a, doc)
    [] tool = "generate_plot_hook" -> generate_plot_hook(a, doc)
    [] tool = "generate_treasure" -> generate_treasure(a, doc)

\* A generator that runs from its fetch to its return or throw in one step.
Settle(tool, filename, docs) ==
  /\ pc = "called"
  /\ name = tool
  /\ ToolsLookup(name) = "generator"
  /\ invoked' = tool
  /\ \E status \in FetchStatuses :
       /\ fetchStatus' = status
       /\ IF status = "ok"
            THEN \E doc \in docs : \E s \in Generate(tool, args, doc) :
                   /\ data' = doc
                   /\ outcome' = s.outcome
                   /\ result' = s.result
            ELSE /\ data' = data
                 /\ outcome' = fetchData(filename, status).outcome
                 /\ result' = fetchData(filename, status).result
  /\ pc' = "settled"
  /\ UNCHANGED <<name, args, response, i, selected, drawn>>

CallEncounter ==
  /\ Settle("generate_encounter", "encounters.json", EncounterDocs)
  /\ UNCHANGED crRange

CallNpcName ==
  /\ Settle("generate_npc_name", "names.json", NameDocs)
  /\ UNCHANGED crRange

CallLocationName ==
  /\ Settle("generate_location_name", "locations.json", LocationDocs)
  /\ UNCHANGED crRange

CallWeather ==
  /\ Settle("generate_weather", "weather.json", WeatherDocs)
  /\ UNCHANGED crRange

CallPlotHook ==
  /\ Settle("generate_plot_hook", "plot_hooks.json", PlotHookDocs)
  /\ UNCHANGED crRange

\* crRange is assigned after the fetch, so a failed fetch leaves it unset.
CallTreasure ==
  /\ Settle("generate_treasure", "treasure.json", TreasureDocs)
  /\ crRange' = IF fetchStatus' = "ok" THEN CRRange(args.cr) ELSE crRange

\* generate_personality up to the start of its loop.
CallPersonality ==
  /\ pc = "called"
  /\ name = "generate_personality"
  /\ ToolsLookup(name) = "generator"
  /\ invoked' = name
  /\ \E status \in FetchStatuses :
       /\ fetchStatus' = status
       /\ IF status = "ok"
            THEN /\ \E doc \in TraitDocs : data' = doc
                 /\ pc' = "personality_loop"
                 /\ UNCHANGED <<outcome, result>>
            ELSE /\ data' = data
                 /\ outcome' = fetchData("traits.json", status).outcome
                 /\ result' = fetchData("traits.json", status).result
                 /\ pc' = "settled"
  /\ i' = 0
  /\ selected' = <<>>
  /\ drawn' = <<>>
  /\ UNCHANGED <<name, args, response, crRange>>

\* One iteration of the for loop of generate_personality.
PersonalityDraw ==
  /\ pc = "personality_loop"
  /\ LET allTraits == AllTraits(data)
     IN /\ i < LoopBound(PersonalityCount(args), Len(allTraits))
        /\ \E r \in RandomIndex(Len(allTraits)) :
             /\ selected' = PushIfAbsent(selected, ArrayAt(allTraits, r))
             /\ drawn' = Append(drawn, r)
  /\ i' = i + 1
  /\ UNCHANGED <<pc, name, args, fetchStatus, data, invoked, outcome, result,
                 response, crRange>>

\* The loop condition fails: return { traits: selected }.
PersonalityReturn ==
  /\ pc = "personality_loop"
  /\ ~(i < LoopBound(PersonalityCount(args), Len(AllTraits(data))))
  /\ outcome' = "returned"
  /\ result' = [traits |-> selected]
  /\ pc' = "settled"
  /\ UNCHANGED <<name, args, fetchStatus, data, invoked, response, crRange,
                 i, selected, drawn>>

\* tools[name] is truthy but is not one of the generators: the call in the
\* try block runs what Object.prototype provides (this = tools).
CallInherited ==
  /\ pc = "called"
  /\ ToolsLookup(name) \in {"inherited function", "inherited object"}
  /\ LET s == IF name = "toString" THEN Returned(<<"[object Object]">>)
              ELSE IF name = "constructor" THEN Returned(args)
              ELSE Threw(<<"tools[name] is not a function">>)
     IN /\ outcome' = s.outcome
        /\ result' = s.result
  /\ pc' = "settled"
  /\ UNCHANGED <<name, args, fetchStatus, data, invoked, response, crRange,
                 i, selected, drawn>>

\* The try/catch around `await tools[name](args)`.
Respond ==
  /\ pc = "settled"
  /\ response' =
       IF outcome = "returned"
         THEN [content |-> <<[type |-> "text", text |-> JSONStringify(result)]>>]
         ELSE [content |-> <<[type |-> "text",
                              text |-> JSONStringify([error |-> result.message])]>>,
               isError |-> TRUE]
  /\ pc' = "done"
  /\ UNCHANGED <<name, args, fetchStatus, data, invoked, outcome, result,
                 crRange, i, selected, drawn>>

\* tools[name] is falsy.
UnknownTool ==
  /\ pc = "called"
  /\ ToolsLookup(name) = Undefined
  /\ response' = UnknownToolResponse(name)
  /\ pc' = "done"
  /\ UNCHANGED <<name, args, fetchStatus, data, invoked, outcome, result,
                 crRange, i, selected, drawn>>

Next ==
  \/ ToolsCall
  \/ CallEncounter
  \/ CallNpcName
  \/ CallLocationName
  \/ CallWeather
  \/ CallPlotHook
  \/ CallTreasure
  \/ CallPersonality
  \/ PersonalityDraw
  \/ PersonalityReturn
  \/ CallInherited
  \/ Respond
  \/ UnknownTool

Spec == Init /\ [][Next]_vars
\* ------------------------------------------------------------------------
\* Properties
\* ------------------------------------------------------------------------
\* The generator `tool` has run to its return or throw.
Finished(tool) == pc \in {"settled", "done"} /\ invoked = tool

\* The generator `tool` fetched its table and returned a value.
ReturnedFrom(tool) == Finished(tool) /\ fetchStatus = "ok" /\ outcome = "returned"

IsErrorValue(v) == DOMAIN v = {"error"}

NoDuplicates(seq) == \A j, k \in DOMAIN seq : j # k => seq[j] # seq[k]

\* The requested category or combination has no entries in the fetched table.
CategoryAbsentOrEmpty ==
  CASE invoked = "generate_encounter" ->
         \/ args.environment \notin DOMAIN data.encounters
         \/ EncounterDifficulty(args) \notin DOMAIN data.encounters[args.environment]
         \/ data.encounters[args.environment][EncounterDifficulty(args)] = <<>>
    [] invoked = "generate_npc_name" ->
         \/ args.race \notin DOMAIN data.names
         \/ args.gender \notin DOMAIN data.names[args.race]
         \/ data.names[args.race][args.gender] = <<>>
    [] invoked = "generate_location_name" ->
         \/ args.type \notin DOMAIN data.locations
         \/ /\ data.locations[args.type].prefixes = <<>>
            /\ data.locations[args.type].suffixes = <<>>
    [] invoked = "generate_weather" ->
         \/ args.climate \notin DOMAIN data.weather
         \/ /\ \/ "season" \notin DOMAIN args
               \/ args.season \notin DOMAIN data.weather[args.climate]
               \/ data.weather[args.climate][args.season] = <<>>
            /\ \/ "any" \notin DOMAIN data.weather[args.climate]
               \/ data.weather[args.climate]["any"] = <<>>
    [] invoked = "generate_plot_hook" ->
         \/ args.theme \notin DOMAIN data.plot_hooks
         \/ data.plot_hooks[args.theme] = <<>>
    [] OTHER -> FALSE

\* C1: for generate_encounter, generate_npc_name, generate_location_name,
\* generate_weather and generate_plot_hook, a failed fetch makes the call
\* throw, and a successful fetch whose requested category is absent or
\* empty makes the call return {error: message} without throwing.
C1_ErrorKindsNotConflated ==
  (pc \in {"settled", "done"}
   /\ invoked \in {"generate_encounter", "generate_npc_name", "generate_location_name",
                   "generate_weather", "generate_plot_hook"})
  => /\ fetchStatus # "ok" => outcome = "threw"
     /\ (fetchStatus = "ok" /\ CategoryAbsentOrEmpty)
          => (outcome = "returned" /\ IsErrorValue(result))

\* C2: the CR bucket is "cr17+" for cr >= 17, "cr11-16" for 11 <= cr <= 16,
\* "cr5-10" for 5 <= cr <= 10 and "cr0-4" below 5 (so 16 gives "cr11-16" and
\* 17 gives "cr17+"), and the coin kinds of the result are those of
\* table[type][that bucket].
C2_BucketByThreshold ==
  (Finished("generate_treasure") /\ fetchStatus = "ok")
  => LET cr == args.cr
         type == TreasureType(args)
         bucket == IF cr \in 0 .. 4 THEN "cr0-4"
                   ELSE IF cr \in 5 .. 10 THEN "cr5-10"
                   ELSE IF cr \in 11 .. 16 THEN "cr11-16"
                   ELSE "cr17+"
     IN /\ crRange = bucket
        /\ cr = 16 => crRange = "cr11-16"
        /\ cr = 17 => crRange = "cr17+"
        /\ outcome = "returned" =>
             DOMAIN result.coins =
               IF bucket \in DOMAIN data.treasure[type]
                 THEN (DOMAIN data.treasure[type][bucket]) \ {"items"}
                 ELSE {}

C2_Witness ==
  /\ ReturnedFrom("generate_treasure")
  /\ args.cr = 16
  /\ crRange = "cr11-16"
  /\ DOMAIN result.coins = {"gp", "ep"}

\* C3: items is empty whenever type is not "hoard" or cr < 5; for a hoard with
\* cr >= 5 it has 1 to 3 entries, each a member of magic_major when cr >= 11
\* and of magic_medium otherwise.
C3_ItemsFromPool ==
  ReturnedFrom("generate_treasure")
  => LET cr == args.cr
         pool == IF cr >= 11 THEN data.treasure["items"].magic_major
                             ELSE data.treasure["items"].magic_medium
     IN IF TreasureType(args) # "hoard" \/ cr < 5
          THEN result.items = <<>>
          ELSE /\ Len(result.items) \in 1 .. 3
               /\ \A k \in DOMAIN result.items : Includes(pool, result.items[k])

\* C4: the traits returned by generate_personality are pairwise distinct
\* members of the concatenated pool, at most count and at most the pool size
\* many; when count >= 1, the pool is non-empty and every draw returned the
\* same index, exactly one trait is returned.
C4_DistinctTraits ==
  ReturnedFrom("generate_personality")
  => LET traits == result.traits
         pool == AllTraits(data)
         count == PersonalityCount(args)
     IN /\ NoDuplicates(traits)
        /\ \A k \in DOMAIN traits : Includes(pool, traits[k])
        /\ Len(traits) <= count
        /\ Len(traits) <= Len(pool)
        /\ (count >= 1 /\ Len(pool) >= 1 /\ \A j, k \in DOMAIN drawn : drawn[j] = drawn[k])
             => Len(traits) = 1

C4_Witness ==
  /\ ReturnedFrom("generate_personality")
  /\ PersonalityCount(args) = 4
  /\ Len(AllTraits(data)) = 4
  /\ drawn = <<2, 2, 2, 2>>
  /\ Len(result.traits) = 1

\* C5: generate_weather picks from table[climate][season] exactly when season
\* is given and that list exists and is non-empty; otherwise it picks from
\* table[climate]["any"] and returns {error} only when that list is absent or
\* empty; the returned season is the season argument.
C5_WeatherFallback ==
  ReturnedFrom("generate_weather")
  => LET climate == args.climate
         table == data.weather
         useSeason == /\ "season" \in DOMAIN args
                      /\ climate \in DOMAIN table
                      /\ args.season \in DOMAIN table[climate]
                      /\ table[climate][args.season] # <<>>
         anyList == IF climate \in DOMAIN table /\ "any" \in DOMAIN table[climate]
                      THEN table[climate]["any"] ELSE <<>>
     IN IF useSeason
          THEN /\ ~IsErrorValue(result)
               /\ Includes(table[climate][args.season], result.description)
               /\ result.season = args.season
          ELSE IF anyList = <<>>
            THEN IsErrorValue(result)
            ELSE /\ ~IsErrorValue(result)
                 /\ Includes(anyList, result.description)
                 /\ result.season = WeatherSeason(args)

\* C6: when the encounter list of (environment, difficulty) is non-empty,
\* generate_encounter returns a record with partyLevel equal to the input
\* level, environment and difficulty equal to the inputs (difficulty "medium"
\* when omitted), and the fields of a record of the list, whatever fields
\* that record carries.
C6_EncounterEchoesInputs ==
  (ReturnedFrom("generate_encounter") /\ ~CategoryAbsentOrEmpty)
  => /\ result.partyLevel = args.level
     /\ result.environment = args.environment
     /\ result.difficulty = EncounterDifficulty(args)
     /\ LET list == data.encounters[args.environment][EncounterDifficulty(args)]
        IN \E k \in DOMAIN list : (DOMAIN list[k]) \subseteq DOMAIN result

\* C7: every coin-kind entry of the selected bucket other than "items", with
\* dice spec "NdM" (N, M >= 1) and multiplier k, is stored as t * k for some
\* t in N .. N*M (so "2d6" with k = 10 lies in 20 .. 120); coins has one key
\* per such entry and no key "items".
C7_CoinsWithinDiceRange ==
  ReturnedFrom("generate_treasure")
  => LET table == data.treasure[TreasureType(args)]
         treasureData == IF crRange \in DOMAIN table THEN table[crRange] ELSE <<>>
         kinds == (DOMAIN treasureData) \ {"items"}
     IN /\ DOMAIN result.coins = kinds
        /\ "items" \notin DOMAIN result.coins
        /\ \A c \in kinds : \A n, m \in 1 .. MaxDie :
             treasureData[c].dice = FormatDice(n, m)
               => \E t \in n .. (n * m) : result.coins[c] = t * treasureData[c].multiplier
        /\ \A c \in kinds :
             (treasureData[c].dice = <<"2", "d", "6">> /\ treasureData[c].multiplier = 10)
               => result.coins[c] \in 20 .. 120

C7_Witness ==
  /\ ReturnedFrom("generate_treasure")
  /\ crRange = "cr5-10"
  /\ crRange \in DOMAIN data.treasure[TreasureType(args)]
  /\ {"items", "sp"} \subseteq DOMAIN data.treasure[TreasureType(args)][crRange]
  /\ data.treasure[TreasureType(args)][crRange].sp = [dice |-> <<"2", "d", "6">>, multiplier |-> 10]
  /\ result.coins = [sp |-> 120]

\* C8: a tools/call whose name is not one of the seven generators invokes no
\* generator, performs no fetch and is answered "Unknown tool: <name>" with
\* isError; a NotFound result of a recognized tool carries no isError flag.
C8_UnknownToolDistinct ==
  pc = "done"
  => /\ name \notin GeneratorNames
          => /\ invoked = "none"
             /\ fetchStatus = "none"
             /\ "isError" \in DOMAIN response
             /\ response = UnknownToolResponse(name)
     /\ (name \in GeneratorNames /\ outcome = "returned" /\ IsErrorValue(result))
          => "isError" \notin DOMAIN response

\* C9: when the treasure table is fetched and table[type][bucket] does not
\* resolve (type key or bucket key missing), generate_treasure does not fail
\* and returns {challengeRating: cr, type, coins: {}, items}.
C9_MissingBucketEmptyCoins ==
  (Finished("generate_treasure") /\ fetchStatus = "ok"
   /\ \/ TreasureType(args) \notin DOMAIN data.treasure
      \/ crRange \notin DOMAIN data.treasure[TreasureType(args)])
  => /\ outcome = "returned"
     /\ DOMAIN result = {"challengeRating", "type", "coins", "items"}
     /\ result.challengeRating = args.cr
     /\ result.type = TreasureType(args)
     /\ result.coins = <<>>

\* C10 (as stated): generate_personality stops drawing only when the result
\* set has min(count, poolSize) members or count draws have been made.
C10_StopsAtCountOrFull ==
  ReturnedFrom("generate_personality")
  => LET count == PersonalityCount(args)
         poolSize == Len(AllTraits(data))
     IN \/ Len(result.traits) = Min(count, poolSize)
        \/ Len(drawn) = count

\* C10 (amended): generate_personality draws from the full pool exactly
\* min(count, poolSize) times, with no early exit and no retry: count draws
\* when count <= poolSize, and only poolSize draws when count > poolSize.
C10_DrawsMinCountPool ==
  /\ pc = "personality_loop" => Len(drawn) = i
  /\ ReturnedFrom("generate_personality")
     => LET count == PersonalityCount(args)
            poolSize == Len(AllTraits(data))
        IN /\ Len(drawn) = (IF count <= poolSize THEN count ELSE poolSize)
           /\ \A k \in DOMAIN drawn : drawn[k] \in 0 .. (poolSize - 1)

C10_Witness ==
  /\ ReturnedFrom("generate_personality")
  /\ PersonalityCount(args) = 3
  /\ Len(AllTraits(data)) = 2
  /\ Len(drawn) = 2
  /\ Len(result.traits) = 1
====
